---- MODULE Spec2Model ----
(***************************************************************************)
(* Model of the synthetic load generator (src/app.py): LoadGenerator with  *)
(* its login manager (ensure_login), call executor (call_api), cycle       *)
(* runner (run_cycle) and main loop (run).                                  *)
(*                                                                         *)
(* The HTTP transport, the tracer (span tags, header injection), logging   *)
(* and the interrupt signal are the environment: each of their outcomes is *)
(* an input chosen nondeterministically.                                    *)
(***************************************************************************)
EXTENDS Integers, Sequences, FiniteSets, TLC

\* ---------------------------------------------------------------- bounds
\* Number of iterations of the main loop that are explored.
MaxCycles == 2

\* ------------------------------------------------------- program constants
\* Default of APICall.expected_status.
DefaultExpectedStatus == 200
\* Status that ensure_login accepts as a successful login.
LoginOkStatus == 200

\* ------------------------------------------------------------ environment
\* Values of INTERVAL_SECONDS that int() accepts in __init__.
Intervals == {-1, 0, 30}
\* Statuses the target may answer with.
Statuses == {200, 401}
\* Elapsed wall-clock time of a call in ms, as measured by time.time().
ElapsedMs == {5}
\* Message of a transport exception other than Timeout.
TransportMsg == "Connection refused"
\* Message of an exception raised by a span / propagator / logging step.
SpanMsg == "span failure"

\* Python's None and a present value.
None == <<>>
Some(x) == <<x>>

\* The api_calls list built in __init__.
ApiCalls ==
  << [name |-> "session_check", method |-> "GET", url |-> "/api/session/me",
      headers |-> None, data |-> None, expected_status |-> DefaultExpectedStatus],
     [name |-> "rankings_top", method |-> "GET", url |-> "/rankings/top",
      headers |-> None, data |-> None, expected_status |-> DefaultExpectedStatus],
     [name |-> "rankings_top_limit", method |-> "GET", url |-> "/rankings/top?limit=5",
      headers |-> None, data |-> None, expected_status |-> DefaultExpectedStatus],
     [name |-> "score_submit", method |-> "POST", url |-> "/api/score",
      headers |-> Some("Content-Type"), data |-> Some("score"),
      expected_status |-> 200],
     [name |-> "logout", method |-> "GET", url |-> "/api/auth/logout",
      headers |-> None, data |-> None, expected_status |-> 200] >>

\* Outcomes of one execution of a traced HTTP operation (call_api or
\* ensure_login).  fail names the first tracing/logging step of the try
\* block that raises:
\*   "pre"        a step before the request (payload, inject, set_tag)
\*   "status_tag" a step right after the response was received
\*   "branch"     a step inside the success / failure branch
\*   "none"       no step of the try block raises
\* http is what the transport does with the request, handler tells whether
\* a step inside the except handler raises.
HttpOutcomes ==
  [kind : {"response"}, status : Statuses]
    \cup [kind : {"timeout", "error"}, status : {0}]

Envs ==
  [fail : {"pre"}, http : {[kind |-> "unsent", status |-> 0]},
   handler : BOOLEAN, elapsed : ElapsedMs]
    \cup [fail : {"none"}, http : HttpOutcomes, handler : BOOLEAN, elapsed : ElapsedMs]
    \cup [fail : {"status_tag", "branch"},
          http : [kind : {"response"}, status : Statuses],
          handler : BOOLEAN, elapsed : ElapsedMs]

\* ------------------------------------------------------------- call_api
\* result = {...} at the top of call_api.
InitialResult(api_call) ==
  [name |-> api_call.name, method |-> api_call.method, url |-> api_call.url,
   success |-> FALSE, status_code |-> None, response_time_ms |-> 0,
   error |-> None]

UnexpectedStatus(s) == "Unexpected status: " \o ToString(s)

\* except requests.exceptions.Timeout: ...
TimeoutHandler(result, env) ==
  [raised |-> env.handler,
   result |-> [result EXCEPT !.error = Some("Timeout"),
                             !.response_time_ms = env.elapsed]]

\* Variant of ExceptionHandler that does not measure the elapsed time.
ExceptionHandler_NoElapsed(result, msg, env) ==
  [raised |-> env.handler,
   result |-> [result EXCEPT !.error = Some(msg)]]

\* except Exception as e: ...
ExceptionHandler(result, msg, env) ==
  [raised |-> env.handler,
   result |-> [result EXCEPT !.error = Some(msg),
                             !.response_time_ms = env.elapsed]]

\* The whole of call_api: what it returns, or that it raises.
call_api(api_call, env) ==
  LET r0 == InitialResult(api_call)
      r1 == [r0 EXCEPT !.status_code = Some(env.http.status),
                       !.response_time_ms = env.elapsed]
      ok == [r1 EXCEPT !.success = TRUE]
      bad == [r1 EXCEPT !.error = Some(UnexpectedStatus(env.http.status))]
  IN  IF env.fail = "pre" THEN ExceptionHandler(r0, SpanMsg, env)
      ELSE IF env.http.kind = "timeout" THEN TimeoutHandler(r0, env)
      ELSE IF env.http.kind = "error" THEN ExceptionHandler(r0, TransportMsg, env)
      ELSE IF env.fail = "status_tag" THEN ExceptionHandler(r1, SpanMsg, env)
      ELSE IF env.http.status = api_call.expected_status
           THEN IF env.fail = "branch" THEN ExceptionHandler(ok, SpanMsg, env)
                ELSE [raised |-> FALSE, result |-> ok]
           ELSE IF env.fail = "branch" THEN ExceptionHandler(bad, SpanMsg, env)
                ELSE [raised |-> FALSE, result |-> bad]

\* ---------------------------------------------------------- ensure_login
\* The whole of ensure_login: its return value, the new logged_in flag, or
\* that it raises.
ensure_login(flag, env) ==
  LET handler(f) == [raised |-> env.handler, ret |-> FALSE, logged_in |-> f]
  IN  IF env.fail = "pre" THEN handler(flag)
      ELSE IF env.http.kind \in {"timeout", "error"} THEN handler(flag)
      ELSE IF env.fail = "status_tag" THEN handler(flag)
      ELSE IF env.http.status = LoginOkStatus
           THEN IF env.fail = "branch" THEN handler(TRUE)
                ELSE [raised |-> FALSE, ret |-> TRUE, logged_in |-> TRUE]
           ELSE IF env.fail = "branch" THEN handler(flag)
                ELSE [raised |-> FALSE, ret |-> FALSE, logged_in |-> flag]

\* ------------------------------------------------------------------ state
VARIABLES
  interval,     \* self.interval
  logged_in,    \* self.logged_in
  api_calls,    \* self.api_calls
  pc,           \* where run() is: top, login, call, delay, sleep, done
  cycle_count,  \* cycle_count of run()
  i,            \* loop index of run_cycle (1-based)
  results,      \* results of run_cycle; at sleep, the list it returned
  logins,       \* ensure_login invocations in the current cycle
  delays,       \* jitter sleeps taken in the current cycle
  completed,    \* number of run_cycle invocations that returned
  last,         \* the most recent execution of ensure_login or call_api
  stopped,      \* why run() left its loop
  requests,     \* session.request invocations by call_api in this cycle
  waits,        \* inter-cycle time.sleep(self.interval) calls that returned
  interrupted,  \* a KeyboardInterrupt has been delivered
  summary,      \* cycle counts logged by the `finally` clause of run()
  exit_code     \* exit status of the process, None while it runs

vars == <<interval, logged_in, api_calls, pc, cycle_count, i, results,
          logins, delays, completed, last, stopped, requests,
          waits, interrupted, summary, exit_code>>

NoEnv == [fail |-> "none", http |-> [kind |-> "unsent", status |-> 0],
          handler |-> FALSE, elapsed |-> 0]
\* No traced operation has run yet in this cycle.
NoOp == [op |-> "none", index |-> 0, env |-> NoEnv, raised |-> FALSE,
         ret |-> FALSE, result |-> InitialResult(ApiCalls[1])]

\* LoadGenerator.__init__ followed by the entry of run().
Init ==
  /\ interval \in Intervals
  /\ logged_in = FALSE
  /\ api_calls = ApiCalls
  /\ pc = "top"
  /\ cycle_count = 0
  /\ i = 1
  /\ results = <<>>
  /\ logins = 0
  /\ delays = 0
  /\ completed = 0
  /\ last = NoOp
  /\ stopped = "no"
  /\ requests = 0
  /\ waits = 0
  /\ interrupted = FALSE
  /\ summary = <<>>
  /\ exit_code = None

\* The frame of run_cycle is gone: its locals no longer exist.
Unwound ==
  /\ i' = 1
  /\ results' = <<>>
  /\ logins' = 0
  /\ delays' = 0
  /\ requests' = 0

\* __main__: generator.run() returned and the script ends, whichever
\* except clause of run() was taken.
ExitStatus(why) == 0

\* run(): an except clause (why), then `finally` logs cycle_count, run()
\* returns and the process ends.
RunEnds(why) ==
  /\ pc' = "done"
  /\ stopped' = why
  /\ summary' = Append(summary, cycle_count)
  /\ exit_code' = Some(ExitStatus(why))

\* call_api / ensure_login: the request is issued unless an earlier step of
\* the try block raised.
RequestsIssued(env) == IF env.fail = "pre" THEN 0 ELSE 1

\* Variant of AfterLogin that tries the login again when it failed.
AfterLogin_Retry(ret) == IF ret THEN "call" ELSE "login"

\* run_cycle(): where it continues after self.ensure_login() returned; the
\* return value is ignored.
AfterLogin(ret) == "call"

\* Variant of AppendResult that records successful calls only.
AppendResult_SuccessOnly(rs, result) ==
  IF result.success THEN Append(rs, result) ELSE rs

\* run_cycle(): results.append(result).
AppendResult(rs, result) == Append(rs, result)

\* Variant of BeforeCall that starts delaying one call too late.
BeforeCall_OffByOne(k) == IF k > 1 THEN "delay" ELSE "call"

\* run_cycle(): `if i > 0:` decides whether a jitter delay precedes the
\* call at (0-based) index k.
BeforeCall(k) == IF k > 0 THEN "delay" ELSE "call"

\* Variant of LoggedInAfter that compares with a different call name.
LoggedInAfter_WrongName(name, flag) ==
  IF name = "auth_logout" THEN FALSE ELSE flag

\* run_cycle(): `if api_call.name == "logout": self.logged_in = False`.
LoggedInAfter(name, flag) == IF name = "logout" THEN FALSE ELSE flag

\* Headers that propagator.inject adds to the header map it is given.
TraceHeaders == <<"x-datadog-trace-id", "x-datadog-parent-id">>

\* data = {**data, "score": data["score"]()}: the payload with the score
\* generator replaced by the value it produced.
ResolvedPayload(data) == IF data = None THEN None ELSE data \o <<"value">>

\* Variant of PreparedCall that resolves the payload and injects the
\* headers in the call definition itself.
PreparedCall_InPlace(api_call) ==
  [api_call |-> [api_call EXCEPT !.headers = @ \o TraceHeaders,
                                 !.data = ResolvedPayload(@)],
   headers |-> api_call.headers \o TraceHeaders,
   json |-> ResolvedPayload(api_call.data)]

\* call_api, before the request: the payload is resolved into a new dict,
\* the headers are copied (or a new dict is made) and the trace headers are
\* injected into that copy.  api_call is the call definition afterwards,
\* headers and json are what the request is sent with.
PreparedCall(api_call) ==
  [api_call |-> api_call,
   headers |-> api_call.headers \o TraceHeaders,
   json |-> ResolvedPayload(api_call.data)]

\* run(): cycle_count += 1, then run_cycle() up to the logged_in test.
CycleStart ==
  /\ pc = "top"
  /\ cycle_count < MaxCycles
  /\ cycle_count' = cycle_count + 1
  /\ pc' = IF ~logged_in THEN "login" ELSE BeforeCall(0)
  /\ i' = 1
  /\ results' = <<>>
  /\ logins' = 0
  /\ delays' = 0
  /\ last' = NoOp
  /\ requests' = 0
  /\ UNCHANGED <<interval, logged_in, api_calls, completed, stopped, waits,
                 interrupted, summary, exit_code>>

\* run_cycle(): self.ensure_login(), return value ignored; results = [].
\* An exception out of ensure_login unwinds run_cycle and reaches
\* `except Exception` of run().
LoginStep ==
  /\ pc = "login"
  /\ \E env \in Envs :
       LET out == ensure_login(logged_in, env)
       IN  /\ logged_in' = out.logged_in
           /\ last' = [NoOp EXCEPT !.op = "login", !.env = env,
                                   !.raised = out.raised, !.ret = out.ret]
           /\ IF out.raised
              THEN /\ RunEnds("run_cycle")
                   /\ Unwound
              ELSE /\ pc' = AfterLogin(out.ret)
                   /\ logins' = logins + 1
                   /\ UNCHANGED <<stopped, i, results, delays, requests,
                                  summary, exit_code>>
  /\ UNCHANGED <<interval, api_calls, cycle_count, completed, waits,
                 interrupted>>

\* Variant of DelayStep in which the jitter sleep never returns.
DelayStep_NeverEnds ==
  /\ pc = "delay"
  /\ FALSE
  /\ UNCHANGED vars

\* run_cycle(): if i > 0: time.sleep(random.uniform(1, 3)).
DelayStep ==
  /\ pc = "delay"
  /\ delays' = delays + 1
  /\ pc' = "call"
  /\ UNCHANGED <<interval, logged_in, api_calls, cycle_count, i, results,
                 logins, completed, last, stopped, requests,
                 waits, interrupted, summary, exit_code>>

\* run_cycle(): result = self.call_api(api_call); results.append(result);
\* reset of logged_in after the logout call; next loop iteration, or after
\* the last call the summary and `return results` to run().
\* An exception out of call_api unwinds run_cycle and reaches
\* `except Exception` of run().
CallStep ==
  /\ pc = "call"
  /\ \E env \in Envs :
       LET out == call_api(api_calls[i], env)
       IN  /\ last' = [NoOp EXCEPT !.op = "call", !.index = i, !.env = env,
                                   !.raised = out.raised,
                                   !.result = out.result]
           /\ IF out.raised
              THEN /\ RunEnds("run_cycle")
                   /\ Unwound
                   /\ UNCHANGED <<logged_in, completed>>
              ELSE /\ results' = AppendResult(results, out.result)
                   /\ logged_in' = LoggedInAfter(api_calls[i].name, logged_in)
                   /\ i' = IF i < Len(api_calls) THEN i + 1 ELSE i
                   /\ pc' = IF i < Len(api_calls)
                            THEN BeforeCall(i) ELSE "sleep"
                   /\ completed' = IF i < Len(api_calls)
                                   THEN completed ELSE completed + 1
                   /\ requests' = requests + RequestsIssued(env)
                   /\ UNCHANGED <<stopped, logins, delays,
                                  summary, exit_code>>
  /\ api_calls' = [api_calls EXCEPT ![i] = PreparedCall(@).api_call]
  /\ UNCHANGED <<interval, cycle_count, waits, interrupted>>

\* Variant of IntervalSleep that skips the wait when the interval is 0.
IntervalSleep_SkipsZero ==
  /\ pc = "sleep"
  /\ IF interval < 0
     THEN /\ RunEnds("sleep")
          /\ Unwound
          /\ last' = NoOp
          /\ UNCHANGED waits
     ELSE /\ pc' = "top"
          /\ waits' = IF interval = 0 THEN waits ELSE waits + 1
          /\ Unwound
          /\ last' = NoOp
          /\ UNCHANGED <<stopped, summary, exit_code>>
  /\ UNCHANGED <<interval, logged_in, api_calls, cycle_count, completed,
                 interrupted>>

\* run(): time.sleep(self.interval).  time.sleep raises ValueError for a
\* negative length, which `except Exception` of run() catches.  run() never
\* reads the list run_cycle returned, which the next iteration replaces.
IntervalSleep ==
  /\ pc = "sleep"
  /\ IF interval < 0
     THEN /\ RunEnds("sleep")
          /\ Unwound
          /\ last' = NoOp
          /\ UNCHANGED waits
     ELSE /\ pc' = "top"
          /\ waits' = waits + 1
          /\ Unwound
          /\ last' = NoOp
          /\ UNCHANGED <<stopped, summary, exit_code>>
  /\ UNCHANGED <<interval, logged_in, api_calls, cycle_count, completed,
                 interrupted>>

\* Variant of Interrupt in which the interrupt is caught and dropped where
\* it is delivered, as by a bare `except:`.
Interrupt_Swallowed ==
  /\ pc # "done"
  /\ interrupted' = TRUE
  /\ UNCHANGED <<interval, logged_in, api_calls, pc, cycle_count, i, results,
                 logins, delays, completed, last, stopped, requests, waits,
                 summary, exit_code>>

\* KeyboardInterrupt delivered while run() is in its loop:
\* `except KeyboardInterrupt`, then `finally`.
Interrupt ==
  /\ pc # "done"
  /\ interrupted' = TRUE
  /\ RunEnds("interrupt")
  /\ Unwound
  /\ last' = NoOp
  /\ UNCHANGED <<interval, logged_in, api_calls, cycle_count, completed,
                 waits>>

Next ==
  \/ CycleStart
  \/ LoginStep
  \/ DelayStep
  \/ CallStep
  \/ IntervalSleep
  \/ Interrupt

Spec == Init /\ [][Next]_vars

\* run() is one sequential thread that keeps executing its next statement:
\* every request returns or times out and every sleep ends.  The interrupt
\* is the environment's choice and has no fairness.
ProgramStep ==
  \/ CycleStart
  \/ LoginStep
  \/ DelayStep
  \/ CallStep
  \/ IntervalSleep

\* INTERVAL_SECONDS=0: time.sleep(0) returns at once.  Positive intervals
\* take the same branch of IntervalSleep; a negative one ends run() by the
\* ValueError of time.sleep.
FairInit == Init /\ interval = 0

FairSpec == FairInit /\ [][Next]_vars /\ WF_vars(ProgramStep)

\* ----------------------------------------------------------------- claims
\* The call definition a result of the current cycle belongs to.
CallOf(k) == api_calls[k]

\* The most recent traced operation is a call_api that returned a result.
CallReturned == last.op = "call" /\ ~last.raised

\* C1: every result returned by call_api has success true iff error is
\* null iff status_code equals the call's expected_status, on every path.
C1_SuccessIffNoErrorIffExpected ==
  \A k \in 1..Len(results) :
    LET r == results[k]
    IN  /\ r.success <=> (r.error = None)
        /\ r.success <=> (r.status_code = Some(CallOf(k).expected_status))

\* C2: call_api always returns a result and never raises to run_cycle.
C2_CallApiNeverRaises ==
  last.op = "call" => ~last.raised

\* C3: a run_cycle that returns yields exactly one result per entry of
\* api_calls, in the order of api_calls; while the loop runs the results
\* are those of the calls made so far, none skipped.
C3_OneResultPerCallInOrder ==
  /\ pc = "sleep" => Len(results) = Len(api_calls)
  /\ pc \in {"call", "delay"} => Len(results) = i - 1
  /\ Len(results) <= Len(api_calls)
  /\ \A k \in 1..Len(results) :
       /\ results[k].name = CallOf(k).name
       /\ results[k].method = CallOf(k).method
       /\ results[k].url = CallOf(k).url

\* A cycle returned although its first call timed out and its third call
\* got an unexpected status.
C3_Witness ==
  /\ pc = "sleep"
  /\ Len(results) = Len(api_calls)
  /\ results[1].error = Some("Timeout")
  /\ results[3].error = Some(UnexpectedStatus(401))
  /\ results[5].success

\* C4: after the call named "logout" has been executed, however it ended,
\* logged_in is false.
C4_LoggedOutAfterLogout ==
  (last.op = "call" /\ CallOf(last.index).name = "logout") => ~logged_in

\* C5: call_api classifies in priority order: a timeout gives
\* error "Timeout", success false, status_code null; any other exception
\* gives error = its message, success false, status_code null; a completed
\* request gives success true and error null when the status is the
\* expected one, success false and error "Unexpected status: <status>"
\* otherwise.
C5_Classification ==
  CallReturned =>
    LET r == last.result
        e == last.env
        expected == CallOf(last.index).expected_status
    IN  IF e.http.kind = "timeout"
        THEN r.error = Some("Timeout") /\ ~r.success /\ r.status_code = None
        ELSE IF e.http.kind = "error"
        THEN r.error = Some(TransportMsg) /\ ~r.success /\ r.status_code = None
        ELSE IF e.fail # "none"
        THEN r.error = Some(SpanMsg) /\ ~r.success /\ r.status_code = None
        ELSE IF e.http.status = expected
        THEN r.success /\ r.error = None /\ r.status_code = Some(e.http.status)
        ELSE /\ ~r.success
             /\ r.error = Some(UnexpectedStatus(e.http.status))
             /\ r.status_code = Some(e.http.status)

\* C6: for the same call and the same HTTP outcome, success, status_code
\* and error of the returned result are the same whether the span steps
\* succeed or any of them fails.
C6_SpanStepsDoNotAffectResult ==
  (CallReturned /\ last.env.http.kind # "unsent") =>
    LET quiet == call_api(CallOf(last.index),
                          [last.env EXCEPT !.fail = "none", !.handler = FALSE])
    IN  /\ last.result.success = quiet.result.success
        /\ last.result.status_code = quiet.result.status_code
        /\ last.result.error = quiet.result.error

\* C7: when the login POST returns 200, ensure_login sets logged_in to
\* true and returns true.
C7_Login200SetsLoggedIn ==
  (last.op = "login" /\ last.env.http.kind = "response"
     /\ last.env.http.status = LoginOkStatus)
  => (~last.raised /\ last.ret /\ logged_in)

\* C8: when the login POST returns a status other than 200 or raises a
\* transport exception, ensure_login returns false, leaves logged_in false
\* and propagates no exception.
C8_LoginFailureContained ==
  (last.op = "login"
     /\ \/ last.env.http.kind \in {"timeout", "error"}
        \/ last.env.http.kind = "response" /\ last.env.http.status # LoginOkStatus)
  => (~last.raised /\ ~last.ret /\ ~logged_in)

\* A step that executes ensure_login.
LoginInvoked ==
  last'.op = "login" /\ (last' # last \/ logins' # logins)

\* C9: ensure_login is invoked only from run_cycle at the start of a cycle,
\* before the first call, only while logged_in is false, and at most once
\* per cycle (a failed login is not retried).
C9_LoginOnlyAtCycleStart ==
  [][LoginInvoked =>
       /\ ~logged_in
       /\ logins = 0
       /\ last.op = "none"
       /\ results = <<>>
       /\ i = 1
       /\ delays = 0
       /\ stopped = "no"]_vars

\* The second cycle goes on to its first call after its one login attempt
\* failed.
C9_Witness ==
  /\ cycle_count = 2
  /\ pc = "call"
  /\ last.op = "login"
  /\ ~last.ret
  /\ ~logged_in
  /\ logins = 1

\* C10: run() leaves its loop only on an interrupt or on an exception that
\* escapes run_cycle, for every accepted interval.
C10_StopsOnlyOnInterruptOrCycleError ==
  pc = "done" => stopped \in {"interrupt", "run_cycle"}


\* C11: absent an interrupt or a fatal exception, cycle n+1 eventually
\* starts after cycle n, also when the interval is 0.
C11_NextCycleEventuallyStarts ==
  \A n \in 1..(MaxCycles - 1) :
    (cycle_count = n /\ stopped = "no")
      ~> (cycle_count = n + 1 \/ stopped # "no")

\* With an interval of 0 the second cycle has started.
C11_Witness ==
  /\ interval = 0
  /\ cycle_count = 2
  /\ pc = "login"
  /\ waits = 1
  /\ stopped = "no"

\* C12: the exit status is 0 when run() stops on an interrupt and non-zero
\* when it stops on an unhandled error; the final summary is logged in
\* both cases.
C12_ExitStatusDistinguishes ==
  pc = "done" =>
    /\ Len(summary) = 1
    /\ stopped = "interrupt" => exit_code = Some(0)
    /\ stopped # "interrupt" => exit_code # Some(0)

\* C13: an interrupt delivered at any point of the loop ends run() at the
\* main loop boundary: run() is done, the final summary has been logged
\* exactly once, and afterwards no cycle starts and nothing more is logged.
C13_InterruptEndsRun ==
  [][/\ interrupted' =>
          /\ pc' = "done"
          /\ stopped' = "interrupt"
          /\ summary' = <<cycle_count'>>
     /\ interrupted =>
          /\ cycle_count' = cycle_count
          /\ summary' = summary
          /\ pc' = "done"]_vars

\* The interrupt arrived in the second cycle and run() has ended.
C13_Witness ==
  /\ interrupted
  /\ pc = "done"
  /\ stopped = "interrupt"
  /\ cycle_count = 2
  /\ completed = 1
  /\ summary = <<2>>

\* C14: every execution of call_api issues exactly one HTTP request, so a
\* cycle that returns has issued one request per entry of api_calls.
C14_OneRequestPerCall ==
  /\ CallReturned => RequestsIssued(last.env) = 1
  /\ requests = Len(results)
  /\ pc = "sleep" => requests = Len(api_calls)

\* C15: a jitter delay precedes the call at index i iff i > 0: none before
\* the first call, one between consecutive calls, and a call starts only
\* after the delay that follows the previous call.
C15_JitterBetweenCalls ==
  /\ pc = "login" => delays = 0
  /\ pc = "call" => delays = i - 1 /\ Len(results) = delays
  /\ pc = "delay" => i > 1 /\ delays = i - 2 /\ Len(results) = delays + 1
  /\ pc = "sleep" => delays = Len(api_calls) - 1

\* A cycle has returned after its four jitter delays.
C15_Witness ==
  /\ pc = "sleep"
  /\ Len(results) = Len(api_calls)
  /\ delays = 4

\* C16: each iteration increments the counter, runs one cycle and then
\* waits the interval: one wait between the end of cycle n and the start
\* of cycle n+1, none before the first cycle.
C16_OneWaitBetweenCycles ==
  /\ pc = "top" => waits = cycle_count /\ completed = cycle_count
  /\ pc \in {"login", "call", "delay"} =>
       waits = cycle_count - 1 /\ completed = cycle_count - 1
  /\ pc = "sleep" => waits = cycle_count - 1 /\ completed = cycle_count

\* The wait after the second cycle has ended.
C16_Witness ==
  /\ pc = "top"
  /\ cycle_count = 2
  /\ completed = 2
  /\ waits = 2

\* The most recent call_api returned from one of its except handlers.
FailurePath ==
  /\ CallReturned
  /\ \/ last.env.fail # "none"
     \/ last.env.http.kind \in {"timeout", "error"}

\* C17: a result returned on a failure path has response_time_ms assigned
\* from the elapsed time, not left at the placeholder of the new result.
C17_FailureTimeMeasured ==
  FailurePath => last.result.response_time_ms = last.env.elapsed

\* A call that timed out returned its measured time.
C17_Witness ==
  /\ FailurePath
  /\ last.env.http.kind = "timeout"
  /\ last.result.response_time_ms = last.env.elapsed
  /\ last.result.response_time_ms # InitialResult(CallOf(1)).response_time_ms

\* C18: executing calls leaves the call definitions unchanged.
C18_CallDefinitionsUnchanged ==
  api_calls = ApiCalls

\* The score call has been executed in the second cycle and its payload
\* is still the generator.
C18_Witness ==
  /\ cycle_count = 2
  /\ CallReturned
  /\ last.index = 4
  /\ CallOf(4).data = Some("score")
  /\ CallOf(4).headers = Some("Content-Type")

\* C19: when run() ends the cycle count of the final summary equals the
\* number of cycles for which run_cycle ran to completion.
C19_SummaryCountsCompletedCycles ==
  pc = "done" => summary = <<completed>>

\* C20: logged_in is false whenever a cycle starts, so every cycle makes
\* exactly one login attempt before its first call.
C20_LoggedOutAtCycleStart ==
  /\ pc \in {"top", "login", "sleep"} => ~logged_in
  /\ pc = "login" => logins = 0 /\ results = <<>>
  /\ pc \in {"call", "delay", "sleep"} => logins = 1

\* The second cycle is about to make its login attempt.
C20_Witness ==
  /\ pc = "login"
  /\ cycle_count = 2
  /\ completed = 1
  /\ ~logged_in

====
